---- MODULE Spec2Model ----
(***************************************************************************)
(* Model of the QR-code HTTP service in src/api/src/main.rs: the handlers  *)
(* health, api_generate and statifiles, running concurrently over one      *)
(* shared file system.  A request is a slot of req; a handler that touches *)
(* the file system more than once is split at each access, so that other   *)
(* requests can interleave exactly where the operating system lets them.   *)
(*                                                                         *)
(* Paths are sequences of components (/tmp/x.png is <<"tmp", "x.png">>),   *)
(* file contents are sequences of chunks, header values are sequences of   *)
(* bytes.  A handler that panics (an unwrap of an Err) ends its request    *)
(* with no response: pc = "aborted", and status stays 0.                   *)
(***************************************************************************)
EXTENDS Integers, Sequences, FiniteSets, TLC

VARIABLES fs, req, issued

vars == <<fs, req, issued>>

\* Number of requests the service receives in one run.
MaxReq == 2

Reqs == 1..MaxReq

----------------------------------------------------------------------------
(* Values *)

\* Uuid::new_v4().to_simple().to_string(): one value per request.
Tokens == {"u" \o ToString(i) : i \in 1..MaxReq}

NoToken == ""

\* The statuses the handlers and their extractors answer with.
HttpStatuses == {200, 400, 404}

\* Byte capacity of QrCode::new (error-correction level M, version 40).
QrMaxBytesM == 2331

\* A message is its text and its length in bytes.
Messages ==
    { [text |-> "", len |-> 0],
      [text |-> "hello world", len |-> 11],
      [text |-> "long text", len |-> QrMaxBytesM + 1] }

EmptyMessage == [text |-> "", len |-> 0]

\* The query string of a generate request, as web::Query<FormMessage> sees it.
Queries ==
    {[tag |-> "absent", message |-> EmptyMessage],
     [tag |-> "malformed", message |-> EmptyMessage]}
        \cup {[tag |-> "ok", message |-> m] : m \in Messages}

NoQuery == [tag |-> "absent", message |-> EmptyMessage]

\* The user-agent header: absent, or a value of bytes (99 = 'c', 233 = 0xE9).
UserAgents ==
    { [present |-> FALSE, bytes |-> <<>>],
      [present |-> TRUE, bytes |-> <<99, 108>>],
      [present |-> TRUE, bytes |-> <<99, 233>>] }

NoAgent == [present |-> FALSE, bytes |-> <<>>]

\* The directories of the machine; the service creates none.
Dirs == {<<>>, <<"tmp">>, <<"etc">>}

TmpDir == <<"tmp">>

PasswdPath == <<"etc", "passwd">>

PasswdBytes == <<"root:x:0:0">>

----------------------------------------------------------------------------
(* api_generate: names *)

PngName(token) == token \o ".png"

\* A slip: the file is saved under the bare token, the url keeps ".png".
FilenameNoExtension(token) == <<"tmp", token>>

\* A slip: one fixed file name for every request.
FilenameFixed(token) == <<"tmp", "qr.png">>

Filename(token) == <<"tmp", PngName(token)>>

Fileurl(name) == <<"static", name>>

----------------------------------------------------------------------------
(* api_generate: the query extractor, the encoder, the image *)

\* A slip: a missing parameter is read as the empty message.
ExtractQueryDefaulting(q) == [ok |-> TRUE, message |-> q.message]

\* web::Query<FormMessage>: Err (HTTP 400) unless message is present and parses.
ExtractQuery(q) ==
    IF q.tag = "ok" THEN [ok |-> TRUE, message |-> q.message]
                    ELSE [ok |-> FALSE, message |-> EmptyMessage]

\* QrCode::new(message): Err when the data does not fit the largest code.
QrEncodes(message) == message.len <= QrMaxBytesM

\* code.render::<Luma<u8>>().build() as the bytes image.save writes: a PNG
\* header followed by the pixels, which the message decides.
Render(message) == <<"PNG", message.text>>

\* What a write that fails part-way may leave in the file.
ProperPrefixes(bytes) == {SubSeq(bytes, 1, n) : n \in 0..(Len(bytes) - 1)}

\* A slip: the response carries the path on disk and drops the message.
ResponseJsonDiskPath(token, message) ==
    [url |-> Filename(token), message |-> EmptyMessage]

\* json::object!{"url" => fileurl, "message" => message.clone()}
ResponseJson(token, message) ==
    [url |-> Fileurl(PngName(token)), message |-> message]

----------------------------------------------------------------------------
(* statifiles: the path and its resolution *)

\* format!("/tmp/{}", filename)
StaticPath(filename) == TmpDir \o filename

Parent(dir) == IF dir = <<>> THEN <<>> ELSE SubSeq(dir, 1, Len(dir) - 1)

\* The kernel's walk of a path: ".." steps to the parent (the root is its own
\* parent), a name steps into the directory; a step out of something that is
\* no directory fails.
RECURSIVE Walk(_, _)
Walk(cur, rest) ==
    IF rest = <<>> THEN [ok |-> TRUE, path |-> cur]
    ELSE IF cur \notin Dirs THEN [ok |-> FALSE, path |-> <<>>]
    ELSE IF Head(rest) = ".." THEN Walk(Parent(cur), Tail(rest))
    ELSE Walk(Append(cur, Head(rest)), Tail(rest))

Resolve(path) == Walk(<<>>, path)

InTmp(path) == Len(path) > Len(TmpDir) /\ SubSeq(path, 1, Len(TmpDir)) = TmpDir

\* request.match_info().query("filename") for the route /static/{filename:.*}
StaticFilenames ==
    {<<PngName(t)>> : t \in Tokens}
        \cup {<<"missing.png">>, <<"etc", "passwd">>, <<"..", "etc", "passwd">>,
              <<"..", "..", "etc", "passwd">>}

\* The filename a client asks for when it fetches a url of a generate response.
UrlFilename(url) == Tail(url)

----------------------------------------------------------------------------
(* health: the header *)

\* HeaderValue::to_str: Ok only when every byte is visible ASCII or a tab.
ToStrOk(bytes) ==
    \A i \in 1..Len(bytes) : bytes[i] = 9 \/ (bytes[i] >= 32 /\ bytes[i] < 127)

----------------------------------------------------------------------------
(* State *)

NoBody ==
    [url |-> <<>>, message |-> EmptyMessage, bytes |-> <<>>,
     health |-> "", agent |-> <<>>]

IdleRequest ==
    [kind |-> "none", pc |-> "idle", query |-> NoQuery, ua |-> NoAgent,
     filename |-> <<>>, token |-> NoToken, status |-> 0, body |-> NoBody,
     opened |-> <<>>, fault |-> "none"]

Init ==
    /\ fs = (PasswdPath :> PasswdBytes)
    /\ req = [r \in Reqs |-> IdleRequest]
    /\ issued = {}

\* Requests arrive one after the other: slot r is taken once slot r-1 is.
Arrives(r) ==
    /\ req[r].pc = "idle"
    /\ IF r = 1 THEN TRUE ELSE req[r - 1].pc # "idle"

Ended(r) == req[r].pc \in {"done", "aborted"}

Panic(r, fault) == [req[r] EXCEPT !.pc = "aborted", !.fault = fault]

----------------------------------------------------------------------------
(* health *)

Health(r, ua) ==
    /\ Arrives(r)
    /\ LET q == [req[r] EXCEPT !.kind = "health", !.ua = ua]
       IN  \/ /\ ~ua.present
              /\ req' = [req EXCEPT ![r] =
                    [q EXCEPT !.pc = "done", !.status = 200,
                              !.body = [NoBody EXCEPT !.health = "Ok",
                                                      !.agent = <<>>]]]
           \/ /\ ua.present /\ ToStrOk(ua.bytes)
              /\ req' = [req EXCEPT ![r] =
                    [q EXCEPT !.pc = "done", !.status = 200,
                              !.body = [NoBody EXCEPT !.health = "Ok",
                                                      !.agent = ua.bytes]]]
           \/ /\ ua.present /\ ~ToStrOk(ua.bytes)
              /\ req' = [req EXCEPT ![r] =
                    [q EXCEPT !.pc = "aborted", !.fault = "header"]]
    /\ UNCHANGED <<fs, issued>>

----------------------------------------------------------------------------
(* api_generate *)

\* The extractor, then lines 40-47: the token, the names, the encoding.
ApiGenerateStart(r, query) ==
    /\ Arrives(r)
    /\ LET q == [req[r] EXCEPT !.kind = "generate", !.query = query]
           x == ExtractQuery(query)
       IN  \/ /\ ~x.ok
              /\ req' = [req EXCEPT ![r] = [q EXCEPT !.pc = "done", !.status = 400]]
              /\ UNCHANGED issued
           \/ /\ x.ok
              /\ \E token \in Tokens \ issued :
                    /\ issued' = issued \cup {token}
                    /\ \/ /\ QrEncodes(x.message)
                          /\ req' = [req EXCEPT ![r] =
                                [q EXCEPT !.pc = "create", !.token = token]]
                       \/ /\ ~QrEncodes(x.message)
                          /\ req' = [req EXCEPT ![r] =
                                [q EXCEPT !.pc = "aborted", !.token = token,
                                          !.fault = "encode"]]
    /\ UNCHANGED fs

\* image.save, first half: File::create makes or empties the file, or fails.
ApiGenerateCreate(r) ==
    /\ req[r].kind = "generate" /\ req[r].pc = "create"
    /\ \/ /\ fs' = (Filename(req[r].token) :> <<>>) @@ fs
          /\ req' = [req EXCEPT ![r].pc = "write"]
       \/ /\ req' = [req EXCEPT ![r] = Panic(r, "create")]
          /\ UNCHANGED fs
    /\ UNCHANGED issued

\* image.save, second half: the encoder writes the bytes, or fails part-way.
ApiGenerateWrite(r) ==
    /\ req[r].kind = "generate" /\ req[r].pc = "write"
    /\ LET image == Render(ExtractQuery(req[r].query).message)
       IN  \/ /\ fs' = (Filename(req[r].token) :> image) @@ fs
              /\ req' = [req EXCEPT ![r].pc = "respond"]
           \/ /\ \E part \in ProperPrefixes(image) :
                    fs' = (Filename(req[r].token) :> part) @@ fs
              /\ req' = [req EXCEPT ![r] = Panic(r, "write")]
    /\ UNCHANGED issued

\* Lines 51-58: the JSON body and the 200.
ApiGenerateRespond(r) ==
    /\ req[r].kind = "generate" /\ req[r].pc = "respond"
    /\ LET json == ResponseJson(req[r].token, ExtractQuery(req[r].query).message)
       IN  req' = [req EXCEPT ![r] =
                [@ EXCEPT !.pc = "done", !.status = 200,
                          !.body = [NoBody EXCEPT !.url = json.url,
                                                  !.message = json.message]]]
    /\ UNCHANGED <<fs, issued>>

----------------------------------------------------------------------------
(* statifiles *)

\* NamedFile::open(path) on the files `files`: the file's bytes with a 200, or
\* NotFound as a 404.
NamedFileOpen(files, filename) ==
    LET res == Resolve(StaticPath(filename))
    IN  IF res.ok /\ res.path \in DOMAIN files
        THEN [status |-> 200, opened |-> res.path, bytes |-> files[res.path]]
        ELSE [status |-> 404, opened |-> <<>>, bytes |-> <<>>]

\* A path that names a directory is not asked for: what actix-files answers
\* for it is decided outside this repository.
NamesDirectory(filename) ==
    LET res == Resolve(StaticPath(filename)) IN res.ok /\ res.path \in Dirs

\* A slip: the file is opened for writing, which creates it when missing.
StatifilesCreating(r, filename) ==
    /\ Arrives(r)
    /\ ~NamesDirectory(filename)
    /\ Resolve(StaticPath(filename)).ok
    /\ LET target == Resolve(StaticPath(filename)).path
       IN  /\ fs' = IF target \in DOMAIN fs THEN fs ELSE (target :> <<>>) @@ fs
           /\ req' = [req EXCEPT ![r] =
                [@ EXCEPT !.kind = "static", !.filename = filename,
                          !.pc = "done", !.status = 200, !.opened = target]]
    /\ UNCHANGED issued

Statifiles(r, filename) ==
    /\ Arrives(r)
    /\ ~NamesDirectory(filename)
    /\ LET out == NamedFileOpen(fs, filename)
       IN  req' = [req EXCEPT ![r] =
                [@ EXCEPT !.kind = "static", !.filename = filename,
                          !.pc = "done", !.status = out.status,
                          !.opened = out.opened,
                          !.body = [NoBody EXCEPT !.bytes = out.bytes]]]
    /\ UNCHANGED <<fs, issued>>

----------------------------------------------------------------------------

Next ==
    \/ \E r \in Reqs, ua \in UserAgents : Health(r, ua)
    \/ \E r \in Reqs, query \in Queries : ApiGenerateStart(r, query)
    \/ \E r \in Reqs : ApiGenerateCreate(r)
    \/ \E r \in Reqs : ApiGenerateWrite(r)
    \/ \E r \in Reqs : ApiGenerateRespond(r)
    \/ \E r \in Reqs, filename \in StaticFilenames : Statifiles(r, filename)

Spec == Init /\ [][Next]_vars

----------------------------------------------------------------------------
(* Properties *)

Generates == {r \in Reqs : req[r].kind = "generate"}

Statics == {r \in Reqs : req[r].kind = "static"}

Healths == {r \in Reqs : req[r].kind = "health"}

\* A generate request whose message is present, non-empty and encodable.
Encodable(r) ==
    /\ req[r].kind = "generate"
    /\ req[r].query.tag = "ok"
    /\ req[r].query.message.len > 0
    /\ req[r].query.message.len <= QrMaxBytesM

\* C1: a generate request with a non-empty message within capacity, whose
\* write to the file system does not fail, ends with a 200 and a url; from the
\* state in which that 200 is produced on, the static handler answers the
\* url's filename with a 200 and the complete, non-empty image.
GenerateOkThenServed ==
    \A r \in Reqs :
        Encodable(r) =>
            /\ (Ended(r) /\ req[r].fault \notin {"create", "write"})
                    => req[r].status = 200
            /\ req[r].status = 200 =>
                    /\ req[r].body.url # <<>>
                    /\ LET out == NamedFileOpen(fs, UrlFilename(req[r].body.url))
                       IN  /\ out.status = 200
                           /\ out.bytes = <<"PNG", req[r].query.message.text>>
                           /\ out.bytes # <<>>

\* C1 witness: a static request fetched the url of a 200 generate response
\* and got a 200 with the image.
GenerateOkThenServedWitness ==
    \E r \in Generates, s \in Statics :
        /\ Encodable(r) /\ req[r].status = 200
        /\ req[s].filename = UrlFilename(req[r].body.url)
        /\ req[s].status = 200
        /\ req[s].body.bytes = <<"PNG", req[r].query.message.text>>

\* C2: the step that handles a generate request whose message parameter is
\* absent or malformed answers 400, takes no token and leaves every file as
\* it was.
RejectLeavesFiles ==
    [][\A r \in Reqs :
          (req[r].pc = "idle" /\ req'[r].kind = "generate"
                /\ req'[r].query.tag # "ok")
            => /\ req'[r].status = 400
               /\ req'[r].pc = "done"
               /\ req'[r].token = NoToken
               /\ issued' = issued
               /\ fs' = fs]_vars

\* C2 witness: a generate request without a message was answered.
RejectLeavesFilesWitness ==
    \E r \in Generates :
        /\ req[r].query.tag = "absent"
        /\ req[r].status = 400
        /\ \E g \in Generates : req[g].status = 200

\* C3: two generate requests never share a token or a file; when both have
\* answered 200 their urls differ, and the static handler answers each url
\* with that request's own image.
DistinctTokensAndFiles ==
    \A r1, r2 \in Generates :
        (r1 # r2 /\ req[r1].token # NoToken /\ req[r2].token # NoToken) =>
            /\ req[r1].token # req[r2].token
            /\ Filename(req[r1].token) # Filename(req[r2].token)
            /\ (req[r1].status = 200 /\ req[r2].status = 200) =>
                    /\ req[r1].body.url # req[r2].body.url
                    /\ \A r \in {r1, r2} :
                          LET out == NamedFileOpen(fs, UrlFilename(req[r].body.url))
                          IN  /\ out.status = 200
                              /\ out.bytes = Render(req[r].query.message)

\* C3 witness: two generate requests with the same message both answered 200.
DistinctTokensAndFilesWitness ==
    \E r1, r2 \in Generates :
        /\ r1 # r2
        /\ req[r1].query = req[r2].query
        /\ req[r1].status = 200 /\ req[r2].status = 200

\* C4: every file a static request opens lies inside /tmp.
StaticStaysInTmp ==
    \A s \in Statics : req[s].status = 200 => InTmp(req[s].opened)

\* C5: every health request is answered 200 with health "Ok" and the
\* user-agent value, or the empty string when the header is absent.
HealthAlwaysOk ==
    \A r \in Healths :
        /\ req[r].status = 200
        /\ req[r].body.health = "Ok"
        /\ req[r].body.agent = IF req[r].ua.present THEN req[r].ua.bytes ELSE <<>>

\* C6: every request that has ended has a response.
EveryRequestAnswered ==
    \A r \in Reqs : Ended(r) => req[r].status \in HttpStatuses

\* C7: a static request for a filename that no generate request produced is
\* answered 404.
NeverGeneratedIs404 ==
    \A s \in Statics :
        (\A g \in Generates :
              req[g].token = NoToken \/ req[s].filename # <<PngName(req[g].token)>>)
            => req[s].status = 404

\* C8: a 200 generate response carries the message the handler received and
\* the url /static/<token>.png of the file /tmp/<token>.png, which holds the
\* image this request wrote.
ResponseEchoesMessageAndUrl ==
    \A r \in Generates :
        req[r].status = 200 =>
            /\ req[r].body.message = req[r].query.message
            /\ req[r].body.url = <<"static", req[r].token \o ".png">>
            /\ <<"tmp", req[r].body.url[2]>> \in DOMAIN fs
            /\ fs[<<"tmp", req[r].body.url[2]>>] = Render(req[r].query.message)

\* C8 witness: a 200 generate response for "hello world".
ResponseEchoesMessageAndUrlWitness ==
    \E r \in Generates :
        req[r].status = 200 /\ req[r].body.message.text = "hello world"

\* C9: a step that handles a static or a health request leaves the set of
\* files and every file's contents as they were.
ReadOnlyHandlers ==
    [][\A r \in Reqs :
          (req[r].pc = "idle" /\ req'[r].kind \in {"static", "health"})
            => fs' = fs]_vars

\* C9 witness: a static request was answered 404 and another request, static
\* or health, was answered 200.
ReadOnlyHandlersWitness ==
    \E s \in Statics, r \in Statics \cup Healths :
        req[s].status = 404 /\ req[r].status = 200

\* C10: the file of a token exists only once the generate request of that
\* token has saved its image (so a request that failed leaves none), and no
\* step changes or removes a file that exists.
TokenFileOnlyAfterSuccess ==
    /\ [](\A t \in Tokens :
            Filename(t) \in DOMAIN fs =>
                \E g \in Generates :
                    req[g].token = t /\ req[g].pc \in {"respond", "done"})
    /\ [][\A p \in DOMAIN fs : p \in DOMAIN fs' /\ fs'[p] = fs[p]]_vars

====
